---- MODULE Spec2Model ----
(***************************************************************************)
(* Board Excel Intelligence Platform                                       *)
(* (src/board_excel_intelligence_platform_full.py).                        *)
(*                                                                         *)
(* The script is executed top to bottom once per user interaction.  One    *)
(* behaviour of Spec is one such execution: the widget state (uploaded     *)
(* files, selected file and sheet, view mode, the Decimals choice of each  *)
(* column, whether the export button was pressed) is drawn in Init and the *)
(* sections of the script are the actions, in program order.               *)
(*                                                                         *)
(* Numbers are fixed-point integers counted in units of 1e-7, so that the  *)
(* tolerance 1e-6 of needs_six_decimals and the rounding to 2 and to 6     *)
(* decimals are exact.  A cell, a header label and a reported value all    *)
(* have the shape [kind, num, str]:                                        *)
(*   kind "num"  a number (num, in units of 1e-7)                          *)
(*   kind "nan"  a float NaN (a missing cell, an empty reduction)          *)
(*   kind "str"  a Python str (str)                                        *)
(*   kind "int"  a Python int used as header label (num)                   *)
(*   kind "none" Python None                                               *)
(* Cells of type bool or datetime are not modelled.                        *)
(*                                                                         *)
(* Uploaded files carry distinct names, so that file_map (line 112) maps   *)
(* each name to its own file, and the header texts of a sheet are distinct *)
(* in Spec, so that raw_df[col] (lines 170-177) is the column at col's     *)
(* position; SpecRead runs READ DATA alone on arbitrary header labels.     *)
(* build_aggrid only renders: the grid and the Alignment setting leave no  *)
(* state behind and appear as the step "grid".  Parsing a workbook always  *)
(* succeeds; writing the PDF may raise, which nothing in the script        *)
(* catches (ExportWriteFails).                                             *)
(***************************************************************************)
EXTENDS Integers, Sequences, FiniteSets, TLC

VARIABLES
    uploaded_files,    \* st.sidebar.file_uploader: sequence of workbooks
    selected_file,     \* "Select file" widget: index into uploaded_files
    sheet_name,        \* "Select sheet" widget: index into the workbook
    view_mode,         \* "View Mode" radio
    dec_widgets,       \* "Decimals" selectbox of each column (key dec_{idx})
    export_clicked,    \* st.button("Export Executive View as PDF")
    pc,                \* the section of the script that runs next
    steps,             \* the sections executed so far, in order
    ui,                \* st.info messages shown so far
    raw_df,            \* raw_df
    formatted_df,      \* formatted_df
    decimals_used,     \* per column: decimals passed to format_series, 0 if none
    insights,          \* what Executive Insights reported
    tmp_file,          \* the temporary PDF file on disk
    download_offered,  \* st.download_button was shown
    consolidated       \* what Consolidated Insights computed and reported

vars == <<uploaded_files, selected_file, sheet_name, view_mode, dec_widgets,
          export_clicked, pc, steps, ui, raw_df, formatted_df, decimals_used,
          insights, tmp_file, download_offered, consolidated>>

(***************************************************************************)
(* Bounds of the model.                                                    *)
(***************************************************************************)
MaxWidth == 3   \* header labels of a sheet handed to sanitize_columns
MaxRows == 2    \* rows of the one-column sheets of the formatting inputs
MaxCols == 2    \* columns of the sheets of the insight inputs
MaxFiles == 2   \* uploaded workbooks of the cross-file inputs

(***************************************************************************)
(* Values.                                                                 *)
(***************************************************************************)
Cent == 100000      \* 0.01, the grid of round(x, 2), in units of 1e-7
Tolerance == 10     \* 1e-6 in units of 1e-7

Num(n) == [kind |-> "num", num |-> n, str |-> ""]
Str(s) == [kind |-> "str", num |-> 0, str |-> s]
IntLabel(n) == [kind |-> "int", num |-> n, str |-> ""]
NaN == [kind |-> "nan", num |-> 0, str |-> ""]
None == [kind |-> "none", num |-> 0, str |-> ""]

Abs(n) == IF n < 0 THEN -n ELSE n

\* pd.notna(x) / pd.isna(x) on a scalar
NotNa(x) == x.kind \notin {"nan", "none"}

\* Round n to the nearest multiple of grid, ties to the even multiple
\* (Python's round and the f-string formatting both round half to even).
RoundTo(n, grid) ==
    LET q == n \div grid
        r == n % grid
    IN  IF 2 * r < grid THEN q * grid
        ELSE IF 2 * r > grid THEN (q + 1) * grid
        ELSE IF q % 2 = 0 THEN q * grid ELSE (q + 1) * grid

\* round(x, 2) on a number in units of 1e-7
Round2(n) == RoundTo(n, Cent)

\* round(v, 2) on a reported value: a NaN stays NaN
RoundValue(v) == IF v.kind = "num" THEN Num(Round2(v.num)) ELSE v

RECURSIVE Pow10(_)
Pow10(k) == IF k = 0 THEN 1 ELSE 10 * Pow10(k - 1)

(***************************************************************************)
(* Display strings.  f"{x:.{d}f}" is the pair (d, digits) where digits is  *)
(* x rounded to d decimals and counted in units of 10^-d; str(x) of a      *)
(* float keeps the value as it is (shortest repr).                         *)
(***************************************************************************)
Fixed(d, digits) == [kind |-> "fixed", num |-> digits, str |-> "", dec |-> d]
Repr(n) == [kind |-> "repr", num |-> n, str |-> "", dec |-> 0]
Text(s) == [kind |-> "text", num |-> 0, str |-> s, dec |-> 0]

\* f"{x:.{decimals}f}"
FormatFixed(n, decimals) ==
    LET grid == Pow10(7 - decimals)
    IN  Fixed(decimals, RoundTo(n, grid) \div grid)

\* str(x) of a cell value
StrOfCell(x) ==
    CASE x.kind = "num" -> Repr(x.num)
      [] x.kind = "str" -> Text(x.str)
      [] OTHER -> Text("nan")

(***************************************************************************)
(* Workbooks.  A sheet is its header row and its columns of cells; a       *)
(* workbook is the sequence of its sheets; a DataFrame carries the column  *)
(* labels, the dtype of each column and the cells.                         *)
(***************************************************************************)
Sheet(labels, cols) == [labels |-> labels, cols |-> cols]

NRows(data) == IF Len(data) = 0 THEN 0 ELSE Len(data[1])

\* dtype pandas infers for a column read from a sheet: float64/int64 when
\* there is at least one row and every cell is a number or missing, else object
InferDtype(cells) ==
    IF Len(cells) > 0 /\ \A k \in 1..Len(cells) : cells[k].kind \in {"num", "nan"}
    THEN "number" ELSE "object"

\* pd.read_excel(file, sheet_name)
ReadExcel(sheet) ==
    [columns |-> sheet.labels,
     dtypes  |-> [i \in 1..Len(sheet.cols) |-> InferDtype(sheet.cols[i])],
     data    |-> sheet.cols]

EmptyFrame == [columns |-> <<>>, dtypes |-> <<>>, data |-> <<>>]

(***************************************************************************)
(* HELPERS (lines 27-46)                                                   *)
(***************************************************************************)
\* str(c) of a header label
StrOfLabel(c) ==
    CASE c.kind = "str" -> c.str
      [] c.kind = "int" -> ToString(c.num)
      [] OTHER -> "nan"

\* the placeholder branch of sanitize_columns
IsMissingLabel(c) == c.kind = "none" \/ c.kind = "nan"

\* the enumerate index taken 1-based
SanitizedName_OneBased(i, c) ==
    IF IsMissingLabel(c) THEN Str("Column_" \o ToString(i + 1)) ELSE Str(StrOfLabel(c))

\* one element of the list comprehension; i is the 0-based enumerate index
SanitizedName(i, c) ==
    IF IsMissingLabel(c) THEN Str("Column_" \o ToString(i)) ELSE Str(StrOfLabel(c))

sanitize_columns(df) ==
    [df EXCEPT !.columns = [p \in 1..Len(df.columns) |-> SanitizedName(p - 1, df.columns[p])]]

HasNa(cells) == \E k \in 1..Len(cells) : ~NotNa(cells[k])

\* the dtype of a column after df.where(cond, ""): a column in which no cell is
\* replaced keeps its dtype, a column that receives "" becomes object
WhereDtype(dtype, cells) == IF HasNa(cells) THEN "object" ELSE dtype

\* df.where(pd.notna(df), "")
safe_display(df) ==
    [df EXCEPT
        !.data = [i \in 1..Len(df.data) |->
                    [k \in 1..Len(df.data[i]) |->
                        IF NotNa(df.data[i][k]) THEN df.data[i][k] ELSE Str("")]],
        !.dtypes = [i \in 1..Len(df.data) |-> WhereDtype(df.dtypes[i], df.data[i])]]

\* pd.api.types.is_numeric_dtype(series)
is_numeric(dtype) == dtype = "number"

\* series.dropna()
RECURSIVE dropna(_)
dropna(cells) ==
    IF Len(cells) = 0 THEN <<>>
    ELSE IF NotNa(Head(cells)) THEN <<Head(cells)>> \o dropna(Tail(cells))
    ELSE dropna(Tail(cells))

\* the comparison without its tolerance
LosesPrecision_NoTolerance(x) == Abs(x.num - Round2(x.num)) > 0

\* abs(x - round(x, 2)) > 1e-6
LosesPrecision(x) == Abs(x.num - Round2(x.num)) > Tolerance

needs_six_decimals(dtype, cells) ==
    IF ~is_numeric(dtype) THEN FALSE
    ELSE LET kept == dropna(cells)
         IN  \E k \in 1..Len(kept) : LosesPrecision(kept[k])

format_series(cells, decimals) ==
    [k \in 1..Len(cells) |->
        IF NotNa(cells[k]) THEN FormatFixed(cells[k].num, decimals) ELSE Text("")]


(***************************************************************************)
(* FORMAT DATA (lines 164-177)                                             *)
(***************************************************************************)
\* the selectbox offers "Auto", 2 and 6; the widget value is kept as text
DecimalChoices == {"Auto", "2", "6"}
DecimalsOfChoice(choice) == IF choice = "2" THEN 2 ELSE 6

\* lines 171-174: the decimals of a numeric column
ChosenDecimals(dec_setting, dtype, cells) ==
    IF dec_setting = "Auto"
    THEN IF needs_six_decimals(dtype, cells) THEN 6 ELSE 2
    ELSE DecimalsOfChoice(dec_setting)

\* lines 170-177: the decimals handed to format_series, 0 when the column
\* takes the astype(str) branch
DecimalsUsed(dec_setting, dtype, cells) ==
    IF is_numeric(dtype) THEN ChosenDecimals(dec_setting, dtype, cells) ELSE 0

\* raw_df[col].astype(str)
astype_str(cells) == [k \in 1..Len(cells) |-> StrOfCell(cells[k])]

\* one iteration of the loop over formatted_df.columns
FormatColumn(dec_setting, dtype, cells) ==
    IF is_numeric(dtype)
    THEN format_series(cells, ChosenDecimals(dec_setting, dtype, cells))
    ELSE astype_str(cells)

(***************************************************************************)
(* Reductions of a DataFrame (pandas, skipna=True).                        *)
(***************************************************************************)
\* df.select_dtypes(include=np.number): the positions of the numeric columns
RECURSIVE NumberPositions(_, _)
NumberPositions(dtypes, i) ==
    IF i > Len(dtypes) THEN <<>>
    ELSE IF is_numeric(dtypes[i]) THEN <<i>> \o NumberPositions(dtypes, i + 1)
    ELSE NumberPositions(dtypes, i + 1)

select_dtypes_number(df) ==
    LET keep == NumberPositions(df.dtypes, 1)
    IN  [columns |-> [j \in 1..Len(keep) |-> df.columns[keep[j]]],
         dtypes  |-> [j \in 1..Len(keep) |-> df.dtypes[keep[j]]],
         data    |-> [j \in 1..Len(keep) |-> df.data[keep[j]]]]

\* df.shape[0]
Shape0(df) == NRows(df.data)

\* the emptiness test left out
DfEmpty_Never(df) == FALSE

\* df.empty: no column or no row
DfEmpty(df) == Len(df.columns) = 0 \/ Shape0(df) = 0

\* Series.sum(): the sum of the non-null values, 0 when there is none
RECURSIVE SeriesSum(_)
SeriesSum(cells) ==
    IF Len(cells) = 0 THEN 0
    ELSE (IF Head(cells).kind = "num" THEN Head(cells).num ELSE 0) + SeriesSum(Tail(cells))

\* the larger (smaller) of two reduced values, a NaN being skipped
MaxSkipNa(a, b) ==
    IF a.kind # "num" THEN b
    ELSE IF b.kind # "num" THEN a
    ELSE IF a.num >= b.num THEN a ELSE b

MinSkipNa(a, b) ==
    IF a.kind # "num" THEN b
    ELSE IF b.kind # "num" THEN a
    ELSE IF a.num <= b.num THEN a ELSE b

\* Series.max(), Series.min(): NaN when no value is non-null
RECURSIVE SeriesMax(_)
SeriesMax(cells) ==
    IF Len(cells) = 0 THEN NaN
    ELSE MaxSkipNa(IF Head(cells).kind = "num" THEN Head(cells) ELSE NaN,
                   SeriesMax(Tail(cells)))

RECURSIVE SeriesMin(_)
SeriesMin(cells) ==
    IF Len(cells) = 0 THEN NaN
    ELSE MinSkipNa(IF Head(cells).kind = "num" THEN Head(cells) ELSE NaN,
                   SeriesMin(Tail(cells)))

\* df.sum().sum(), df.max().max(), df.min().min()
RECURSIVE SumSum(_)
SumSum(data) ==
    IF Len(data) = 0 THEN 0 ELSE SeriesSum(Head(data)) + SumSum(Tail(data))

RECURSIVE MaxMax(_)
MaxMax(data) ==
    IF Len(data) = 0 THEN NaN ELSE MaxSkipNa(SeriesMax(Head(data)), MaxMax(Tail(data)))

RECURSIVE MinMin(_)
MinMin(data) ==
    IF Len(data) = 0 THEN NaN ELSE MinSkipNa(SeriesMin(Head(data)), MinMin(Tail(data)))

(***************************************************************************)
(* Executive Insights (lines 210-220)                                      *)
(***************************************************************************)
NoInsights ==
    [shown |-> FALSE, rows |-> 0, columns |-> 0, numeric |-> FALSE,
     numeric_cols |-> 0, total |-> None, maximum |-> None, minimum |-> None]

ExecutiveInsights(df) ==
    LET numeric_df == select_dtypes_number(df)
    IN  IF ~DfEmpty(numeric_df)
        THEN [shown |-> TRUE, rows |-> Shape0(df), columns |-> Len(df.columns),
              numeric |-> TRUE,
              numeric_cols |-> Len(numeric_df.columns),
              total   |-> RoundValue(Num(SumSum(numeric_df.data))),
              maximum |-> RoundValue(MaxMax(numeric_df.data)),
              minimum |-> RoundValue(MinMin(numeric_df.data))]
        ELSE [shown |-> TRUE, rows |-> Shape0(df), columns |-> Len(df.columns),
              numeric |-> FALSE,
              numeric_cols |-> 0, total |-> None, maximum |-> None, minimum |-> None]

NoNumericInSheet == "No numeric data detected in this sheet."

(***************************************************************************)
(* CONSOLIDATED INSIGHTS (lines 260-286)                                   *)
(***************************************************************************)
\* lines 260-263
ConsolidatedStart ==
    [total_rows |-> 0, total_numeric_cols |-> 0, global_sum |-> 0,
     global_max |-> None, visited |-> <<>>]

\* max_val > global_max: False as soon as one side is NaN
GreaterThan(a, b) == a.kind = "num" /\ b.kind = "num" /\ a.num > b.num

\* line 276
ReplacesGlobalMax(max_val, global_max) ==
    global_max.kind = "none" \/ GreaterThan(max_val, global_max)

\* the sum accumulated only where the maximum is replaced
VisitSheet_SumUnderMax(acc, files, f, sh) ==
    LET df == sanitize_columns(ReadExcel(files[f][sh]))
        num_df == select_dtypes_number(df)
        max_val == MaxMax(num_df.data)
        replaces == ~DfEmpty(num_df) /\ ReplacesGlobalMax(max_val, acc.global_max)
    IN  [total_rows |-> acc.total_rows + Shape0(df),
         total_numeric_cols |-> acc.total_numeric_cols + Len(num_df.columns),
         global_sum |-> IF replaces THEN acc.global_sum + SumSum(num_df.data)
                        ELSE acc.global_sum,
         global_max |-> IF replaces THEN max_val ELSE acc.global_max,
         visited |-> Append(acc.visited, <<f, sh>>)]

\* lines 267-277: the body of the loops, for sheet sh of file f
VisitSheet(acc, files, f, sh) ==
    LET df == sanitize_columns(ReadExcel(files[f][sh]))
        num_df == select_dtypes_number(df)
        max_val == MaxMax(num_df.data)
    IN  [total_rows |-> acc.total_rows + Shape0(df),
         total_numeric_cols |-> acc.total_numeric_cols + Len(num_df.columns),
         global_sum |-> IF ~DfEmpty(num_df)
                        THEN acc.global_sum + SumSum(num_df.data)
                        ELSE acc.global_sum,
         global_max |-> IF ~DfEmpty(num_df) /\ ReplacesGlobalMax(max_val, acc.global_max)
                        THEN max_val ELSE acc.global_max,
         visited |-> Append(acc.visited, <<f, sh>>)]

\* lines 265-266: for f in uploaded_files: for sh in sheet_names
RECURSIVE VisitAll(_, _, _, _)
VisitAll(acc, files, f, sh) ==
    IF f > Len(files) THEN acc
    ELSE IF sh > Len(files[f]) THEN VisitAll(acc, files, f + 1, 1)
    ELSE VisitAll(VisitSheet(acc, files, f, sh), files, f, sh + 1)

NoNumericAcrossFiles == "No numeric values detected across uploaded files."

\* lines 279-286: what is written to the page
ConsolidatedReport(acc) ==
    [done |-> TRUE,
     total_rows |-> acc.total_rows,
     total_numeric_cols |-> acc.total_numeric_cols,
     global_sum |-> acc.global_sum,
     shown_sum |-> Round2(acc.global_sum),
     global_max |-> acc.global_max,
     highest |-> IF acc.global_max.kind # "none" THEN RoundValue(acc.global_max) ELSE None,
     visited |-> acc.visited]

NoConsolidated ==
    [done |-> FALSE, total_rows |-> 0, total_numeric_cols |-> 0, global_sum |-> 0,
     shown_sum |-> 0, global_max |-> None, highest |-> None, visited |-> <<>>]


(***************************************************************************)
(* PDF EXPORT (lines 223-252): the temporary file on disk.                 *)
(***************************************************************************)
\* tempfile.NamedTemporaryFile(delete=False, suffix=".pdf"): an empty file
\* that outlives the with block
NamedTemporaryFile == "empty"

\* c.save()
canvas_save(file) == "written"

\* os.remove(pdf_path)
os_remove_skipped(file) == file
os_remove(file) == "removed"

\* the file exists on disk
OnDisk(file) == file \in {"empty", "written"}

(***************************************************************************)
(* The widget state of one execution.                                      *)
(***************************************************************************)
SeqsUpTo(S, n) == UNION {[1..k -> S] : k \in 0..n}

\* the header row pd.read_excel hands over for a sheet whose header cells
\* hold distinct texts
HeaderRow(n) == [i \in 1..n |-> Str("H" \o ToString(i))]

ViewChoices ==
    {[view |-> "Interactive Spreadsheet", export |-> FALSE],
     [view |-> "Executive View", export |-> FALSE],
     [view |-> "Executive View", export |-> TRUE]}

AllAuto(n) == [i \in 1..n |-> "Auto"]

\* Formatting inputs: one workbook, one sheet, one column of up to MaxRows
\* cells; 2.0, 0.123456, 0.0100004 and 0.0100016 (4e-7 and 1.6e-6 away from
\* 0.01), a missing cell and a text; every Decimals choice.
FormatValues ==
    {NaN, Num(200 * Cent), Num(1234560), Num(100004), Num(100016), Str("x")}

FormatInput(col, d, v) ==
    [files |-> << <<Sheet(HeaderRow(1), <<col>>)>> >>, file |-> 1, sheet |-> 1,
     view |-> v.view, export |-> v.export, decs |-> <<d>>]

\* Insight inputs: one workbook, one sheet of up to MaxCols columns of two
\* rows over 3.0, -2.126, a missing cell and a text, or of no row at all.
InsightValues == {NaN, Num(300 * Cent), Num(-21260000), Str("x")}

InsightColumns == [1..2 -> InsightValues] \cup {<<>>}

SameLength(cols) == \A i, j \in 1..Len(cols) : Len(cols[i]) = Len(cols[j])

InsightInput(cols, v) ==
    [files |-> << <<Sheet(HeaderRow(Len(cols)), cols)>> >>, file |-> 1, sheet |-> 1,
     view |-> v.view, export |-> v.export, decs |-> AllAuto(Len(cols))]

\* Cross-file inputs: up to MaxFiles workbooks of one or two sheets each, any
\* file and sheet of them selected.
TextSheet == Sheet(HeaderRow(1), << <<Str("a"), Str("b")>> >>)
BlankSheet == Sheet(HeaderRow(2), << <<Str("a")>>, <<NaN>> >>)
SheetA == Sheet(HeaderRow(2), << <<Str("a"), Str("b")>>, <<Num(600 * Cent), Num(400 * Cent)>> >>)
SheetB == Sheet(HeaderRow(1), << <<NaN, Num(500 * Cent)>> >>)

SheetLibrary == {TextSheet, BlankSheet, SheetA, SheetB}

Workbooks == [1..1 -> SheetLibrary] \cup [1..2 -> SheetLibrary]

CrossFileInput(files, f, sh, v) ==
    [files |-> files, file |-> f, sheet |-> sh, view |-> v.view, export |-> v.export,
     decs |-> AllAuto(Len(files[f][sh].cols))]

\* nothing uploaded: no other widget is drawn
NoUploadInput ==
    [files |-> <<>>, file |-> 0, sheet |-> 0, view |-> "Interactive Spreadsheet",
     export |-> FALSE, decs |-> <<>>]

(***************************************************************************)
(* One execution of the script.                                            *)
(***************************************************************************)
InitWith(inp, start) ==
    /\ uploaded_files = inp.files
    /\ selected_file = inp.file
    /\ sheet_name = inp.sheet
    /\ view_mode = inp.view
    /\ dec_widgets = inp.decs
    /\ export_clicked = inp.export
    /\ pc = start
    /\ steps = <<>>
    /\ ui = <<>>
    /\ raw_df = EmptyFrame
    /\ formatted_df = EmptyFrame
    /\ decimals_used = <<>>
    /\ insights = NoInsights
    /\ tmp_file = "absent"
    /\ download_offered = FALSE
    /\ consolidated = NoConsolidated

Init ==
    \/ InitWith(NoUploadInput, "start")
    \/ \E col \in SeqsUpTo(FormatValues, MaxRows), d \in DecimalChoices, v \in ViewChoices :
            InitWith(FormatInput(col, d, v), "start")
    \/ \E cols \in SeqsUpTo(InsightColumns, MaxCols), v \in ViewChoices :
            SameLength(cols) /\ InitWith(InsightInput(cols, v), "start")
    \/ \E files \in SeqsUpTo(Workbooks, MaxFiles) :
            \E f \in 1..Len(files) :
                \E sh \in 1..Len(files[f]), v \in ViewChoices :
                    InitWith(CrossFileInput(files, f, sh, v), "start")

UploadPrompt == "Upload one or more Excel files to begin."

\* st.stop() left out
AfterUploadCheck_NoStop(files) == "read"

\* lines 108-110: st.stop() ends the execution
AfterUploadCheck(files) == IF Len(files) = 0 THEN "stopped" ELSE "read"

\* lines 102-110
CheckUpload ==
    /\ pc = "start"
    /\ steps' = Append(steps, "upload")
    /\ ui' = IF Len(uploaded_files) = 0 THEN Append(ui, UploadPrompt) ELSE ui
    /\ pc' = AfterUploadCheck(uploaded_files)
    /\ UNCHANGED <<uploaded_files, selected_file, sheet_name, view_mode, dec_widgets,
                   export_clicked, raw_df, formatted_df, decimals_used, insights,
                   tmp_file, download_offered, consolidated>>

\* lines 112-137: open the selected workbook, read the selected sheet
ReadData ==
    /\ pc = "read"
    /\ steps' = Append(steps, "read")
    /\ raw_df' = safe_display(sanitize_columns(
                    ReadExcel(uploaded_files[selected_file][sheet_name])))
    /\ pc' = "format"
    /\ UNCHANGED <<uploaded_files, selected_file, sheet_name, view_mode, dec_widgets,
                   export_clicked, ui, formatted_df, decimals_used, insights,
                   tmp_file, download_offered, consolidated>>

\* lines 145-177: column_settings from the widgets, then formatted_df
FormatData ==
    /\ pc = "format"
    /\ steps' = Append(steps, "format")
    /\ formatted_df' =
        [raw_df EXCEPT
            !.data = [i \in 1..Len(raw_df.data) |->
                        FormatColumn(dec_widgets[i], raw_df.dtypes[i], raw_df.data[i])],
            !.dtypes = [i \in 1..Len(raw_df.data) |-> "object"]]
    /\ decimals_used' = [i \in 1..Len(raw_df.data) |->
                            DecimalsUsed(dec_widgets[i], raw_df.dtypes[i], raw_df.data[i])]
    /\ pc' = "view"
    /\ UNCHANGED <<uploaded_files, selected_file, sheet_name, view_mode, dec_widgets,
                   export_clicked, ui, raw_df, insights, tmp_file, download_offered,
                   consolidated>>

\* lines 182-191
InteractiveView ==
    /\ pc = "view"
    /\ view_mode = "Interactive Spreadsheet"
    /\ steps' = Append(steps, "grid")
    /\ pc' = "consolidated"
    /\ UNCHANGED <<uploaded_files, selected_file, sheet_name, view_mode, dec_widgets,
                   export_clicked, ui, raw_df, formatted_df, decimals_used, insights,
                   tmp_file, download_offered, consolidated>>

\* lines 196-220
ExecutiveView ==
    /\ pc = "view"
    /\ view_mode # "Interactive Spreadsheet"
    /\ steps' = steps \o <<"grid", "insights">>
    /\ insights' = ExecutiveInsights(raw_df)
    /\ ui' = IF insights'.numeric THEN ui ELSE Append(ui, NoNumericInSheet)
    /\ pc' = "export"
    /\ UNCHANGED <<uploaded_files, selected_file, sheet_name, view_mode, dec_widgets,
                   export_clicked, raw_df, formatted_df, decimals_used,
                   tmp_file, download_offered, consolidated>>

\* line 223: the button was not pressed
ExportNotPressed ==
    /\ pc = "export"
    /\ ~export_clicked
    /\ pc' = "consolidated"
    /\ UNCHANGED <<uploaded_files, selected_file, sheet_name, view_mode, dec_widgets,
                   export_clicked, steps, ui, raw_df, formatted_df, decimals_used,
                   insights, tmp_file, download_offered, consolidated>>

\* lines 223-225
ExportAllocate ==
    /\ pc = "export"
    /\ export_clicked
    /\ steps' = Append(steps, "pdf_allocate")
    /\ tmp_file' = NamedTemporaryFile
    /\ pc' = "pdf_write"
    /\ UNCHANGED <<uploaded_files, selected_file, sheet_name, view_mode, dec_widgets,
                   export_clicked, ui, raw_df, formatted_df, decimals_used,
                   insights, download_offered, consolidated>>

\* lines 227-242
ExportWrite ==
    /\ pc = "pdf_write"
    /\ steps' = Append(steps, "pdf_write")
    /\ tmp_file' = canvas_save(tmp_file)
    /\ pc' = "pdf_offer"
    /\ UNCHANGED <<uploaded_files, selected_file, sheet_name, view_mode, dec_widgets,
                   export_clicked, ui, raw_df, formatted_df, decimals_used,
                   insights, download_offered, consolidated>>

\* lines 227-242 when writing the PDF raises: nothing catches it, the
\* execution ends there
ExportWriteFails ==
    /\ pc = "pdf_write"
    /\ steps' = Append(steps, "pdf_write_failed")
    /\ pc' = "aborted"
    /\ UNCHANGED <<uploaded_files, selected_file, sheet_name, view_mode, dec_widgets,
                   export_clicked, ui, raw_df, formatted_df, decimals_used,
                   insights, tmp_file, download_offered, consolidated>>

\* lines 244-250
ExportOffer ==
    /\ pc = "pdf_offer"
    /\ steps' = Append(steps, "pdf_offer")
    /\ download_offered' = TRUE
    /\ pc' = "pdf_remove"
    /\ UNCHANGED <<uploaded_files, selected_file, sheet_name, view_mode, dec_widgets,
                   export_clicked, ui, raw_df, formatted_df, decimals_used,
                   insights, tmp_file, consolidated>>

\* line 252
ExportRemove ==
    /\ pc = "pdf_remove"
    /\ steps' = Append(steps, "pdf_remove")
    /\ tmp_file' = os_remove(tmp_file)
    /\ pc' = "consolidated"
    /\ UNCHANGED <<uploaded_files, selected_file, sheet_name, view_mode, dec_widgets,
                   export_clicked, ui, raw_df, formatted_df, decimals_used,
                   insights, download_offered, consolidated>>

\* lines 257-286
ConsolidatedInsights ==
    /\ pc = "consolidated"
    /\ steps' = Append(steps, "consolidated")
    /\ consolidated' = ConsolidatedReport(VisitAll(ConsolidatedStart, uploaded_files, 1, 1))
    /\ ui' = IF consolidated'.global_max.kind = "none"
             THEN Append(ui, NoNumericAcrossFiles) ELSE ui
    /\ pc' = "done"
    /\ UNCHANGED <<uploaded_files, selected_file, sheet_name, view_mode, dec_widgets,
                   export_clicked, raw_df, formatted_df, decimals_used, insights,
                   tmp_file, download_offered>>

Next ==
    \/ CheckUpload
    \/ ReadData
    \/ FormatData
    \/ InteractiveView
    \/ ExecutiveView
    \/ ExportNotPressed
    \/ ExportAllocate
    \/ ExportWrite
    \/ ExportWriteFails
    \/ ExportOffer
    \/ ExportRemove
    \/ ConsolidatedInsights

Spec == Init /\ [][Next]_vars


(***************************************************************************)
(* READ DATA on its own: a sheet of up to MaxWidth columns whose header    *)
(* labels are None, a float NaN, a text or an int, read and sanitized.     *)
(* Column p holds the one cell p/100, so that the order of the columns     *)
(* shows.                                                                  *)
(***************************************************************************)
RawLabels ==
    {None, NaN, Str("Name"), Str("Column_1"), Str("1"), IntLabel(1), Str("")}

LabelledSheet(labels) ==
    Sheet(labels, [p \in 1..Len(labels) |-> <<Num(p * Cent)>>])

LabelInput(labels) ==
    [files |-> << <<LabelledSheet(labels)>> >>, file |-> 1, sheet |-> 1,
     view |-> "Interactive Spreadsheet", export |-> FALSE, decs |-> AllAuto(Len(labels))]

InitRead == \E labels \in SeqsUpTo(RawLabels, MaxWidth) : InitWith(LabelInput(labels), "read")

NextRead == ReadData

SpecRead == InitRead /\ [][NextRead]_vars

(***************************************************************************)
(* Properties.                                                             *)
(***************************************************************************)
\* the sheet the widgets select, as stored in the workbook
SelectedSheet == uploaded_files[selected_file][sheet_name]

HasRead == pc \notin {"start", "stopped", "read"}
HasFormatted == pc \notin {"start", "stopped", "read", "format"}

\* a loaded column of numbers and missing cells only, with at least one row
NumbersOrMissing(cells) ==
    /\ Len(cells) > 0
    /\ \A k \in 1..Len(cells) : cells[k] = NaN \/ cells[k].kind = "num"

\* the sum of fn over the finite set S
RECURSIVE SumOver(_, _)
SumOver(fn, S) ==
    IF S = {} THEN 0
    ELSE LET x == CHOOSE y \in S : TRUE IN fn[x] + SumOver(fn, S \ {x})

\* distance of n to the nearest multiple of 0.01
CentDistance(n) == LET r == n % Cent IN IF r <= Cent - r THEN r ELSE Cent - r

\* the multiples of 0.01 nearest to n
IsNearestCent(m, n) == m % Cent = 0 /\ Abs(n - m) = CentDistance(n)

\* the non-null numeric values of a sheet: the positions <<column, row>>
NumericPositions(sheet) ==
    {pos \in (1..Len(sheet.cols)) \X (1..NRows(sheet.cols)) :
        /\ NumbersOrMissing(sheet.cols[pos[1]])
        /\ sheet.cols[pos[1]][pos[2]].kind = "num"}

NumericColumnsOf(sheet) ==
    {c \in 1..Len(sheet.cols) : NumbersOrMissing(sheet.cols[c])}

SheetSum(sheet) ==
    SumOver([pos \in NumericPositions(sheet) |-> sheet.cols[pos[1]][pos[2]].num],
            NumericPositions(sheet))

SheetValues(sheet) ==
    {sheet.cols[pos[1]][pos[2]].num : pos \in NumericPositions(sheet)}

IsMaxOf(m, S) == m \in S /\ \A n \in S : n <= m
IsMinOf(m, S) == m \in S /\ \A n \in S : n >= m

PlaceholderNames == <<"Column_0", "Column_1", "Column_2", "Column_3", "Column_4">>

\* C1: after sanitize_columns every column name is a non-empty string and no
\* two columns of the table have the same name.
C1_NamesUniqueNonEmpty ==
    HasRead =>
        /\ \A p \in 1..Len(raw_df.columns) :
                raw_df.columns[p].kind = "str" /\ raw_df.columns[p].str # ""
        /\ \A p, q \in 1..Len(raw_df.columns) :
                p # q => raw_df.columns[p] # raw_df.columns[q]

\* C2: at 0-based position i the sanitized name is "Column_{i}" when the raw
\* label is None or a float NaN and the stringified label otherwise; the number
\* and the order of the columns are those of the sheet.
C2_SanitizedNames ==
    HasRead =>
        /\ Len(raw_df.columns) = Len(SelectedSheet.labels)
        /\ Len(raw_df.data) = Len(SelectedSheet.cols)
        /\ \A p \in 1..Len(raw_df.columns) :
            LET c == SelectedSheet.labels[p]
                name == raw_df.columns[p]
            IN  /\ name.kind = "str"
                /\ c \in {None, NaN} => name.str = PlaceholderNames[p]
                /\ c.kind = "str" => name.str = c.str
                /\ c = IntLabel(1) => name.str = "1"
                /\ raw_df.data[p] = SelectedSheet.cols[p]

C2_Witness ==
    /\ HasRead
    /\ SelectedSheet.labels = <<Str("Name"), None, NaN>>
    /\ raw_df.columns = <<Str("Name"), Str("Column_1"), Str("Column_2")>>

C4_NumericWithMissingFormatted ==
    HasFormatted =>
        \A i \in 1..Len(SelectedSheet.cols) :
            NumbersOrMissing(SelectedSheet.cols[i]) =>
                \E d \in {2, 6} :
                    \A k \in 1..Len(SelectedSheet.cols[i]) :
                        IF SelectedSheet.cols[i][k] = NaN
                        THEN formatted_df.data[i][k] = Text("")
                        ELSE /\ formatted_df.data[i][k].kind = "fixed"
                             /\ formatted_df.data[i][k].dec = d

\* C5: Executive View reports as numeric-column count the number of numeric
\* columns of the sheet, and sum, maximum and minimum over all non-null values
\* of all of them; a missing cell does not remove its column's other values.
C5_InsightsOverAllNumericValues ==
    insights.shown =>
        LET values == SheetValues(SelectedSheet)
        IN  /\ insights.numeric_cols = Cardinality(NumericColumnsOf(SelectedSheet))
            /\ values # {} =>
                /\ insights.total.kind = "num"
                /\ IsNearestCent(insights.total.num, SheetSum(SelectedSheet))
                /\ insights.maximum.kind = "num"
                /\ \E m \in values : IsMaxOf(m, values) /\ IsNearestCent(insights.maximum.num, m)
                /\ insights.minimum.kind = "num"
                /\ \E m \in values : IsMinOf(m, values) /\ IsNearestCent(insights.minimum.num, m)


\* every sheet of every uploaded file, as <<file, sheet>>
AllSheetIds ==
    UNION {{<<f, sh>> : sh \in 1..Len(uploaded_files[f])} : f \in 1..Len(uploaded_files)}

SheetAt(id) == uploaded_files[id[1]][id[2]]

\* all non-null numeric values of all sheets of all uploaded files
AllValues == UNION {SheetValues(SheetAt(id)) : id \in AllSheetIds}

\* C6: when some sheet holds a non-null numeric value, the reported highest
\* value is the maximum of all non-null numeric values of all sheets of all
\* files (rounded to 2 decimals for display), also when a sheet visited earlier
\* has numeric columns that hold only missing values.
C6_HighestIsGlobalMaximum ==
    (pc = "done" /\ AllValues # {}) =>
        /\ consolidated.highest.kind = "num"
        /\ \E m \in AllValues :
                IsMaxOf(m, AllValues) /\ IsNearestCent(consolidated.highest.num, m)

\* C7: the consolidated insights visit every sheet of every uploaded file
\* exactly once, in both view modes and whatever is selected: the total row
\* count, the total numeric-column count and the global sum are the sums over
\* all those sheets (the sum is shown rounded to 2 decimals).
C7_ConsolidatedTotals ==
    pc = "done" =>
        /\ consolidated.done
        /\ Len(consolidated.visited) = Cardinality(AllSheetIds)
        /\ \A id \in AllSheetIds :
                Cardinality({i \in 1..Len(consolidated.visited) :
                                consolidated.visited[i] = id}) = 1
        /\ consolidated.total_rows =
                SumOver([id \in AllSheetIds |-> NRows(SheetAt(id).cols)], AllSheetIds)
        /\ consolidated.total_numeric_cols =
                SumOver([id \in AllSheetIds |-> Cardinality(NumericColumnsOf(SheetAt(id)))],
                        AllSheetIds)
        /\ consolidated.global_sum =
                SumOver([id \in AllSheetIds |-> SheetSum(SheetAt(id))], AllSheetIds)
        /\ IsNearestCent(consolidated.shown_sum, consolidated.global_sum)

\* two one-sheet workbooks whose numeric columns sum to 10.00 and 5.00, the
\* second one selected, in Executive View: the global sum is 15.00
C7_Witness ==
    /\ pc = "done"
    /\ uploaded_files = << <<SheetA>>, <<SheetB>> >>
    /\ selected_file = 2
    /\ view_mode = "Executive View"
    /\ consolidated.global_sum = 1500 * Cent
    /\ consolidated.shown_sum = 1500 * Cent
    /\ consolidated.total_rows = 4
    /\ consolidated.total_numeric_cols = 2

\* C8: when no file is uploaded the prompt is shown and the execution stops:
\* no workbook is opened, no sheet read, nothing formatted, no grid, no
\* insight, no export and no consolidated insight is reached.
C8_StopsWithoutUpload ==
    Len(uploaded_files) = 0 =>
        /\ pc \in {"start", "stopped"}
        /\ pc = "stopped" => (ui = <<UploadPrompt>> /\ steps = <<"upload">>)
        /\ pc = "start" => (ui = <<>> /\ steps = <<>>)
        /\ raw_df = EmptyFrame
        /\ formatted_df = EmptyFrame
        /\ ~insights.shown
        /\ tmp_file = "absent"
        /\ ~download_offered
        /\ ~consolidated.done

C8_Witness ==
    /\ Len(uploaded_files) = 0
    /\ pc = "stopped"
    /\ ui = <<UploadPrompt>>

\* the position of step name in steps, 0 when it was not executed
StepIndex(name) ==
    IF \E i \in 1..Len(steps) : steps[i] = name
    THEN CHOOSE i \in 1..Len(steps) : steps[i] = name
    ELSE 0

Before(a, b) == StepIndex(a) > 0 /\ StepIndex(a) < StepIndex(b)

\* C9: a temporary PDF file is allocated only by the export action of Executive
\* View; the export runs allocate, write, offer, delete in this order; an
\* execution that offers the download deletes the file afterwards and not
\* before, and no temporary file is left once the export action has run
\* through.
C9_TemporaryFileLifecycle ==
    /\ tmp_file # "absent" =>
            /\ view_mode = "Executive View"
            /\ export_clicked
            /\ StepIndex("insights") > 0
            /\ Before("insights", "pdf_allocate")
    /\ StepIndex("pdf_write") > 0 => Before("pdf_allocate", "pdf_write")
    /\ StepIndex("pdf_offer") > 0 => Before("pdf_write", "pdf_offer")
    /\ StepIndex("pdf_remove") > 0 => Before("pdf_offer", "pdf_remove")
    /\ download_offered <=> StepIndex("pdf_offer") > 0
    /\ pc = "pdf_remove" => (download_offered /\ tmp_file = "written")
    /\ (download_offered /\ pc # "pdf_remove") => tmp_file = "removed"
    /\ pc \in {"consolidated", "done"} => ~OnDisk(tmp_file)

C9_Witness ==
    /\ pc = "done"
    /\ download_offered
    /\ tmp_file = "removed"
    /\ steps = <<"upload", "read", "format", "grid", "insights", "pdf_allocate",
                 "pdf_write", "pdf_offer", "pdf_remove", "consolidated">>

\* C10: a selected sheet without numeric column makes Executive View show the
\* "No numeric data" message and report no sum, maximum or minimum; when no
\* sheet of any file has a numeric column the consolidated insights report a
\* global sum of 0 and the "No numeric values" message instead of a highest
\* value.
C10_NoNumericColumns ==
    /\ (insights.shown /\ NumericColumnsOf(SelectedSheet) = {}) =>
            /\ ~insights.numeric
            /\ \E i \in 1..Len(ui) : ui[i] = NoNumericInSheet
            /\ insights.total = None
            /\ insights.maximum = None
            /\ insights.minimum = None
    /\ (pc = "done" /\ \A id \in AllSheetIds : NumericColumnsOf(SheetAt(id)) = {}) =>
            /\ consolidated.global_sum = 0
            /\ consolidated.shown_sum = 0
            /\ consolidated.highest = None
            /\ \E i \in 1..Len(ui) : ui[i] = NoNumericAcrossFiles

C10_Witness ==
    /\ pc = "done"
    /\ uploaded_files = << <<TextSheet>>, <<TextSheet, TextSheet>> >>
    /\ view_mode = "Executive View"
    /\ ui = <<NoNumericInSheet, NoNumericAcrossFiles>>
    /\ consolidated.shown_sum = 0

====
